---- MODULE Spec2Model ----
(***************************************************************************)
(* Model of src/data_helper.py: the bAbI pre-processing pipeline           *)
(* (tokenize, parse_stories, truncate_stories, get_tokenizer,              *)
(* tokenize_stories, pad_stories, parse_data, get_data).                   *)
(*                                                                         *)
(* A Python str is a sequence of one-character strings.  A Python list is  *)
(* a sequence, a tuple is a tuple, a dict is a function.  An Example is    *)
(* the tuple <<story, query, answer>>.  A list object created by           *)
(* parse_stories carries the index of the input line that created it (its  *)
(* identity): [id |-> line index, toks |-> the tokens].                    *)
(*                                                                         *)
(* re.split follows the semantics of the interpreters the module was       *)
(* written for (Python 2.7 .. 3.6): a match of the empty string does not   *)
(* split.                                                                  *)
(***************************************************************************)
EXTENDS Integers, Sequences, FiniteSets, TLC

VARIABLES
    pc,               \* control point of the function being run, or its outcome
    args,             \* the arguments the function was called with
    ret,              \* its return value
    pos,              \* pad_stories: the number of Examples the loop has handled
    lines,            \* parse_stories: the lines the for loop has consumed so far
    only_supporting,  \* parse_stories: the flag
    story,            \* parse_stories: the current block's sentence history
    stories,          \* parse_stories, pad_stories: the list of Examples
    stories_train,    \* parse_data: the locals of these names
    stories_test,
    vocab,
    token_to_id,
    stories_token_train,
    stories_token_test,
    params

parseVars == <<lines, only_supporting, story, stories>>

dataVars == <<pos, stories_train, stories_test, vocab, token_to_id,
              stories_token_train, stories_token_test, params>>

vars == <<pc, args, ret, parseVars, dataVars>>

None == "None"

(***************************************************************************)
(* Bounds of the model.                                                    *)
(***************************************************************************)
MaxLines == 4

\* Function-call specifications: the longest list of Examples, the longest
\* story of the truncation inputs and the largest truncation length.
MaxExamples == 2

MaxStory == 3

MaxTruncate == 3

\* The largest target length handed to pad_stories.
MaxPad == 2

\* get_data: the longest split and the largest batch size.
MaxBatchExamples == 4

MaxBatch == 3

\* parse_data: the number of lines of the train and the test file together.
MaxDataLines == 4

\* parse_data: truncated_story_length, 130 for qa3 and 70 for the other tasks
\* in the source, scaled down to the stories of the model.
TruncatedLengthQa3 == 2

TruncatedLengthOther == 1

(***************************************************************************)
(* Characters and str methods.                                             *)
(***************************************************************************)
Digits == <<"0", "1", "2", "3", "4", "5", "6", "7", "8", "9">>

DigitChars == {Digits[k] : k \in 1..Len(Digits)}

Whitespace == {" ", "\t", "\n"}

\* \w of the re module: letters, digits and the underscore.
WordChars == DigitChars \cup {"a", "b", "p", "d", "A", "B", "P", "D", "_"}

IsWord(c) == c \in WordChars

\* str.lower, one character.
LowerChar(c) ==
    CASE c = "A" -> "a"
      [] c = "B" -> "b"
      [] c = "P" -> "p"
      [] c = "D" -> "d"
      [] OTHER -> c

Lower(s) == [k \in 1..Len(s) |-> LowerChar(s[k])]

\* str.strip(): leading and trailing whitespace removed.
Strip(s) ==
    LET keep == {k \in 1..Len(s) : s[k] \notin Whitespace}
    IN  IF keep = {} THEN <<>>
        ELSE LET a == CHOOSE k \in keep : \A j \in keep : k <= j
                 b == CHOOSE k \in keep : \A j \in keep : k >= j
             IN  SubSeq(s, a, b)

\* c in s
Contains(s, c) == \E k \in 1..Len(s) : s[k] = c

\* s.split(c): the fields between the occurrences of the character c.
RECURSIVE SplitOn(_, _)
SplitOn(s, c) ==
    IF ~Contains(s, c) THEN <<s>>
    ELSE LET k == CHOOSE k \in 1..Len(s) :
                      s[k] = c /\ \A j \in 1..(k - 1) : s[j] # c
         IN  <<SubSeq(s, 1, k - 1)>> \o SplitOn(SubSeq(s, k + 1, Len(s)), c)

\* s.split(' ', 1): at most one split, at the first space.
SplitFirstSpace(s) ==
    IF ~Contains(s, " ") THEN <<s>>
    ELSE LET k == CHOOSE k \in 1..Len(s) :
                      s[k] = " " /\ \A j \in 1..(k - 1) : s[j] # " "
         IN  <<SubSeq(s, 1, k - 1), SubSeq(s, k + 1, Len(s))>>

\* The length of the longest prefix of s whose characters are all in (w = TRUE)
\* or all outside (w = FALSE) the set cs.
RunLen(s, cs, w) ==
    CHOOSE n \in 0..Len(s) :
        /\ \A k \in 1..n : (s[k] \in cs) = w
        /\ (n = Len(s) \/ (s[n + 1] \in cs) # w)

\* s.split(): the maximal runs of non-whitespace characters.
RECURSIVE SplitWhitespace(_)
SplitWhitespace(s) ==
    LET skip == RunLen(s, Whitespace, TRUE)
        t    == SubSeq(s, skip + 1, Len(s))
        n    == RunLen(t, Whitespace, FALSE)
    IN  IF t = <<>> THEN <<>>
        ELSE <<SubSeq(t, 1, n)>> \o SplitWhitespace(SubSeq(t, n + 1, Len(t)))

DigitValue(c) == (CHOOSE k \in 1..Len(Digits) : Digits[k] = c) - 1

RECURSIVE DecimalValue(_)
DecimalValue(s) ==
    IF s = <<>> THEN 0
    ELSE 10 * DecimalValue(SubSeq(s, 1, Len(s) - 1)) + DigitValue(s[Len(s)])

\* Whether int(s) succeeds: surrounding whitespace is ignored; anything but
\* decimal digits raises ValueError.
IsInt(s) ==
    LET t == Strip(s)
    IN  t # <<>> /\ \A k \in 1..Len(t) : t[k] \in DigitChars

\* int(s)
IntOf(s) == DecimalValue(Strip(s))

\* re.split(SPLIT_RE, sentence), SPLIT_RE = (\W+)?: the maximal runs of word
\* characters and, the group being captured, the runs of non-word characters
\* between them.  (The empty strings re.split also yields are dropped by
\* tokenize's filter and are left out here.)
RECURSIVE SplitRe(_)
SplitRe(s) ==
    IF s = <<>> THEN <<>>
    ELSE LET n == RunLen(s, WordChars, IsWord(s[1]))
         IN  <<SubSeq(s, 1, n)>> \o SplitRe(SubSeq(s, n + 1, Len(s)))

\* tokenize(sentence)
tokenize(sentence) ==
    LET parts == SplitRe(sentence)
        Keep(token) == Strip(token) # <<>>
        kept == SelectSeq(parts, Keep)
    IN  [k \in 1..Len(kept) |-> Lower(Strip(kept[k]))]

(***************************************************************************)
(* Python list operations.                                                 *)
(***************************************************************************)
\* Whether lst[j] (j 0-based, negative j counted from the end) raises IndexError.
PyIndexError(lst, j) == j >= Len(lst) \/ j < 0 - Len(lst)

\* lst[j]
PyGetItem(lst, j) == IF j >= 0 THEN lst[j + 1] ELSE lst[Len(lst) + j + 1]

(***************************************************************************)
(* parse_stories                                                           *)
(***************************************************************************)
\* The sentinel story.append('') leaves for a question line: falsy, no tokens.
Sentinel(idx) == [id |-> idx, toks |-> <<>>]

RestartStoryNever(nid, cur) == cur

\* if nid == 1: story = []
RestartStory(nid, cur) == IF nid = 1 THEN <<>> ELSE cur

SupportingSubstoryFromEnd(cur, supporting) ==
    [k \in 1..Len(supporting) |-> PyGetItem(cur, 0 - supporting[k])]

\* substory = [story[i - 1] for i in supporting]
SupportingSubstory(cur, supporting) ==
    [k \in 1..Len(supporting) |-> PyGetItem(cur, supporting[k] - 1)]

\* substory = [x for x in story if x]
IsTruthy(x) == x.toks # <<>>

FullSubstoryUnfiltered(cur) == cur

FullSubstory(cur) == SelectSeq(cur, IsTruthy)

MarkQuestionSkipped(cur, idx) == cur

\* story.append('')
MarkQuestion(cur, idx) == Append(cur, Sentinel(idx))

Outcome(err, cur, sts) == [err |-> err, story |-> cur, stories |-> sts]

\* The question branch of the loop body (the line holds a tab).
QuestionLine(cur, sts, line, flag, idx) ==
    LET fields == SplitOn(line, "\t")
    IN  IF Len(fields) # 3 THEN Outcome("ValueError", cur, sts)
        ELSE
        LET query  == tokenize(fields[1])
            answer == fields[2]
            words  == SplitWhitespace(fields[3])
            supporting == [k \in 1..Len(words) |-> IntOf(words[k])]
        IN  IF flag /\ \E k \in 1..Len(words) : ~IsInt(words[k])
            THEN Outcome("ValueError", cur, sts)
            ELSE IF flag /\ \E k \in 1..Len(words) :
                               PyIndexError(cur, supporting[k] - 1)
            THEN Outcome("IndexError", cur, sts)
            ELSE
            LET substory == IF flag THEN SupportingSubstory(cur, supporting)
                                    ELSE FullSubstory(cur)
            IN  Outcome(None, MarkQuestion(cur, idx),
                        Append(sts, <<substory, query, answer>>))

\* One iteration of the for loop over raw, the line at index idx (from 1).
LoopBody(cur, sts, raw, flag, idx) ==
    LET parts == SplitFirstSpace(Strip(raw))
    IN  IF Len(parts) # 2 THEN Outcome("ValueError", cur, sts)
        ELSE
        LET nid  == IntOf(parts[1])
            line == parts[2]
        IN  IF ~IsInt(parts[1]) THEN Outcome("ValueError", cur, sts)
            ELSE
            LET cur1 == RestartStory(nid, cur)
            IN  IF Contains(line, "\t")
                THEN QuestionLine(cur1, sts, line, flag, idx)
                ELSE Outcome(None,
                             Append(cur1, [id |-> idx, toks |-> tokenize(line)]),
                             sts)

\* What a call ends with: the value returned, or the exception raised.
Returns(val) == [err |-> None, val |-> val]

Raises(err) == [err |-> err, val |-> None]

\* parse_stories(lines, only_supporting)
RECURSIVE ParseFrom(_, _, _, _, _)
ParseFrom(cur, sts, ls, flag, idx) ==
    IF idx > Len(ls) THEN Returns(sts)
    ELSE LET r == LoopBody(cur, sts, ls[idx], flag, idx)
         IN  IF r.err # None THEN Raises(r.err)
             ELSE ParseFrom(r.story, r.stories, ls, flag, idx + 1)

parse_stories(ls, flag) == ParseFrom(<<>>, <<>>, ls, flag, 1)

(***************************************************************************)
(* The input lines of the model: raw lines as readlines() yields them.     *)
(***************************************************************************)
DecimalOf(n) ==
    IF n < 10 THEN <<Digits[n + 1]>>
    ELSE <<Digits[(n \div 10) + 1], Digits[(n % 10) + 1]>>

NarrativeRaw(nid, text) == DecimalOf(nid) \o <<" ">> \o text \o <<"\n">>

QuestionRaw(nid, query, answer, supporting) ==
    DecimalOf(nid) \o <<" ">> \o query \o <<"\t">> \o answer \o <<"\t">>
        \o supporting \o <<"\n">>

NarrativeTexts == {<<"a">>, <<"B", ".">>}

SupportingFields ==
    {<<"0">>, <<"1">>, <<"2", " ", "1">>, <<"3", " ", "1">>}

\* Lines that do not have the format: no number prefix; no supporting field
\* (strip() takes the trailing tab away and one tab is left).
MalformedLines ==
    {<<"a", "\n">>,
     <<"2", " ", "a", "?", "\t", "B", "\t", "\n">>}

\* The lines that may follow a history of n entries: numbered 1 (a restart),
\* n + 1 (the next of the block) or out of sequence (11, and a tab at its end
\* that strip() takes away).
NextLines(n) ==
    {NarrativeRaw(n + 1, text) : text \in NarrativeTexts}
    \cup {NarrativeRaw(1, <<"a">>), NarrativeRaw(11, <<"a", "\t">>)}
    \cup {QuestionRaw(n + 1, <<"a", "?">>, <<"B">>, sup) : sup \in SupportingFields}
    \cup {QuestionRaw(1, <<"a", "?">>, <<"B">>, <<"1">>)}
    \cup MalformedLines

(***************************************************************************)
(* Specification of parse_stories: one step per line read.                 *)
(***************************************************************************)
\* The variables of the functions that are not running.
NoParse ==
    /\ lines = None
    /\ only_supporting = None
    /\ story = None
    /\ stories = None

NoData ==
    /\ pos = None
    /\ stories_train = None
    /\ stories_test = None
    /\ vocab = None
    /\ token_to_id = None
    /\ stories_token_train = None
    /\ stories_token_test = None
    /\ params = None

ParseInit ==
    /\ pc = "loop"
    /\ lines = <<>>
    /\ only_supporting \in BOOLEAN
    /\ story = <<>>
    /\ stories = <<>>
    /\ args = None
    /\ ret = None
    /\ NoData

\* for line in lines: the loop body on the next line of the input.
ParseLine ==
    /\ pc = "loop"
    /\ Len(lines) < MaxLines
    /\ \E raw \in NextLines(Len(story)) :
          LET r == LoopBody(story, stories, raw, only_supporting, Len(lines) + 1)
          IN  /\ lines' = Append(lines, raw)
              /\ story' = r.story
              /\ stories' = r.stories
              /\ pc' = IF r.err = None THEN "loop" ELSE r.err
    /\ UNCHANGED <<only_supporting, args, ret, dataVars>>

\* return stories: the input is exhausted.
ParseReturn ==
    /\ pc = "loop"
    /\ pc' = "returned"
    /\ ret' = stories
    /\ UNCHANGED <<parseVars, args, dataVars>>

ParseNext == ParseLine \/ ParseReturn

SpecParse == ParseInit /\ [][ParseNext]_vars

(***************************************************************************)
(* What the claims about parse_stories speak of, read off the raw lines.   *)
(***************************************************************************)
Running == pc \in {"loop", "returned"}

\* Per consumed line: its number, its content behind the number, and whether
\* it is a question line: its content (strip() applied, as the loop does)
\* holds a tab.
TableOf(ls) ==
    [k \in 1..Len(ls) |->
        LET parts == SplitFirstSpace(Strip(ls[k]))
        IN  [nid  |-> IntOf(parts[1]),
             text |-> parts[2],
             isq  |-> Contains(parts[2], "\t")]]

LineTable == TableOf(lines)

QuestionField(T, k, f) == SplitOn(T[k].text, "\t")[f]

\* The supporting-index field of question line k, as integers.
Listed(T, k) ==
    LET words == SplitWhitespace(QuestionField(T, k, 3))
    IN  [m \in 1..Len(words) |-> IntOf(words[m])]

\* The index of the line the j-th Example was emitted for.
QuestionOf(T, j) ==
    CHOOSE k \in 1..Len(T) :
        T[k].isq /\ Cardinality({m \in 1..k : T[m].isq}) = j

\* The first line of the block line k lies in: the most recent line numbered 1
\* at or before k (the first line of the input when there is none).
BlockStart(T, k) ==
    LET ones == {m \in 1..k : T[m].nid = 1}
    IN  IF ones = {} THEN 1 ELSE CHOOSE m \in ones : \A o \in ones : m >= o

\* What line k contributes to the history: its tokens, or a sentinel.
EntryOf(T, k) ==
    [id |-> k, toks |-> IF T[k].isq THEN <<>> ELSE tokenize(T[k].text)]

\* The history of the current block as it stands when line k is handled.
HistoryAt(T, k) ==
    IF T[k].nid = 1 THEN <<>>
    ELSE LET b == BlockStart(T, k) IN [m \in 1..(k - b) |-> EntryOf(T, b + m - 1)]

\* C1: with support-filtering disabled, parse_stories emits exactly one Example
\* per question line, in the order of the question lines, and nothing for a
\* narrative line; the Story of each Example is exactly the tokenized narrative
\* lines from the start of the block to the question line, in order, and holds
\* no sentinel (no empty sentence).
C1_FullStoryPerQuestion ==
    (Running /\ ~only_supporting) =>
        LET T == LineTable
            IsNarrativeEntry(e) == ~T[e.id].isq
        IN  /\ Len(stories) = Cardinality({k \in 1..Len(T) : T[k].isq})
            /\ \A j \in 1..Len(stories) :
                  LET q == QuestionOf(T, j)
                  IN  /\ stories[j][1] = SelectSeq(HistoryAt(T, q), IsNarrativeEntry)
                      /\ stories[j][2] = tokenize(QuestionField(T, q, 1))
                      /\ stories[j][3] = QuestionField(T, q, 2)
                      /\ \A m \in 1..Len(stories[j][1]) :
                            stories[j][1][m].toks # <<>>

\* Two questions in one block, the first one's sentinel lying in the history
\* the second Example's Story is taken from.
C1_Witness ==
    /\ pc = "returned" /\ ~only_supporting
    /\ Len(ret) = 2 /\ Len(story) = 4
    /\ Len(ret[2][1]) = 2
    /\ story[2].toks = <<>>

\* C2: a line numbered 1 clears the accumulated history before it is handled,
\* whatever came before: the history holds nothing older than the most recent
\* line numbered 1, and neither does the Story of any Example emitted at or
\* after that line.
C2_RestartClearsStory ==
    Running =>
        LET T == LineTable
        IN  /\ \A m \in 1..Len(story) :
                  \A k \in 1..Len(T) : T[k].nid = 1 => story[m].id >= k
            /\ \A j \in 1..Len(stories) :
                  \A k \in 1..QuestionOf(T, j) :
                      T[k].nid = 1 =>
                          \A m \in 1..Len(stories[j][1]) :
                              stories[j][1][m].id >= k

\* A restart after a block of two lines, and an Example with a non-empty Story
\* emitted after it.
C2_Witness ==
    /\ Running
    /\ Len(stories) >= 1
    /\ LET T == LineTable
           q == QuestionOf(T, Len(stories))
       IN  /\ BlockStart(T, q) > 2
           /\ ~T[1].isq
           /\ Len(stories[Len(stories)][1]) >= 1

\* C3: with support-filtering enabled, the Story of the Example of a question
\* line whose listed indices are positions of the history (1..its length, the
\* history as it stands when the question appears, sentinels counted) is the
\* entries at the listed positions, one per listed index, in the listed order.
C3_SupportingOnly ==
    (Running /\ only_supporting) =>
        LET T == LineTable
        IN  \A j \in 1..Len(stories) :
                LET q == QuestionOf(T, j)
                    h == HistoryAt(T, q)
                    l == Listed(T, q)
                IN  (\A m \in 1..Len(l) : l[m] \in 1..Len(h)) =>
                        stories[j][1] = [m \in 1..Len(l) |-> h[l[m]]]

\* A question listing two positions in descending order, behind an earlier
\* question of the same block.
C3_Witness ==
    /\ pc = "returned" /\ only_supporting
    /\ Len(ret) = 2
    /\ Listed(LineTable, QuestionOf(LineTable, 2)) = <<3, 1>>
    /\ Len(ret[2][1]) = 2

\* Whether the numbers of the lines of each block are 1, 2, 3, ...
Consecutive(T) ==
    \A k \in 1..Len(T) :
        IF k = 1 THEN T[k].nid = 1
        ELSE T[k].nid = 1 \/ T[k].nid = T[k - 1].nid + 1

\* C10: when the line numbers of each block are consecutive from 1, the history
\* has exactly n entries after the line numbered n (a tokenized sentence per
\* narrative line, a sentinel per question line), so a listed index i selects
\* the entry of the line numbered i of the block, its tokens when it is a
\* narrative line, also behind earlier questions of the block.
C10_SentinelAlignment ==
    (Running /\ Len(lines) >= 1) =>
        LET T == LineTable
        IN  Consecutive(T) =>
            /\ Len(story) = T[Len(T)].nid
            /\ \A i \in 1..Len(story) :
                  story[i] = EntryOf(T, BlockStart(T, Len(T)) + i - 1)
            /\ only_supporting =>
                  \A j \in 1..Len(stories) :
                      LET q == QuestionOf(T, j)
                          l == Listed(T, q)
                      IN  \A m \in 1..Len(l) :
                              l[m] \in 1..(T[q].nid - 1) =>
                                  /\ T[stories[j][1][m].id].nid = l[m]
                                  /\ stories[j][1][m] =
                                        EntryOf(T, BlockStart(T, q) + l[m] - 1)

\* A supporting index that names a narrative line behind an earlier question
\* of the same block.
C10_Witness ==
    /\ pc = "returned" /\ only_supporting
    /\ Len(ret) = 2
    /\ LET T == LineTable
           q == QuestionOf(T, 2)
       IN  /\ Consecutive(T)
           /\ T[q].nid = 4
           /\ Listed(T, q)[1] = 3
           /\ ret[2][1][1].toks # <<>>

(***************************************************************************)
(* truncate_stories                                                        *)
(***************************************************************************)
Min(a, b) == IF a <= b THEN a ELSE b

Max(a, b) == IF a >= b THEN a ELSE b

\* lst[start:], start as Python's slice reads it: a negative start counts
\* from the end, and either is clipped to the list.
PySliceFrom(lst, start) ==
    LET from == IF start < 0 THEN Max(Len(lst) + start, 0)
                             ELSE Min(start, Len(lst))
    IN  SubSeq(lst, from + 1, Len(lst))

\* story_truncated = story[-max_length:]
TruncateStory(cur, max_length) == PySliceFrom(cur, 0 - max_length)

truncate_stories(sts, max_length) ==
    [k \in 1..Len(sts) |->
        <<TruncateStory(sts[k][1], max_length), sts[k][2], sts[k][3]>>]

\* The sequences over S of length at most n.
SeqsUpTo(S, n) == UNION {[1..m -> S] : m \in 0..n}

\* A list object that parse_stories did not create.
Obj(toks) == [id |-> 0, toks |-> toks]

\* The inputs of truncate_stories: stories of distinct sentences.
TruncStories ==
    {[m \in 1..n |-> [id |-> m, toks |-> <<<<"a">>>>]] : n \in 0..MaxStory}

TruncExamples ==
    {<<s, q, <<"B">>>> : s \in TruncStories, q \in {<<<<"a">>>>, <<<<"b">>, <<"?">>>>}}

TruncInit ==
    /\ pc = "call"
    /\ args \in [stories : SeqsUpTo(TruncExamples, MaxExamples),
                 max_length : 0..MaxTruncate]
    /\ ret = None
    /\ NoParse
    /\ NoData

TruncCall ==
    /\ pc = "call"
    /\ pc' = "returned"
    /\ ret' = truncate_stories(args.stories, args.max_length)
    /\ UNCHANGED <<args, parseVars, dataVars>>

SpecTrunc == TruncInit /\ [][TruncCall]_vars

\* C4: for every list of Examples and every maximum length N >= 0, each
\* returned Story has at most N sentences and is the trailing suffix of the
\* input Story of length min(N, its length), in order; question and answer are
\* unchanged, and so are the number and the order of the Examples.
C4_TruncateKeepsSuffix ==
    pc = "returned" =>
        /\ Len(ret) = Len(args.stories)
        /\ \A k \in 1..Len(ret) :
              LET before == args.stories[k][1]
                  after  == ret[k][1]
                  keep   == Min(args.max_length, Len(before))
              IN  /\ Len(after) <= args.max_length
                  /\ after = SubSeq(before, Len(before) - keep + 1, Len(before))
                  /\ ret[k][2] = args.stories[k][2]
                  /\ ret[k][3] = args.stories[k][3]

\* The same for a maximum length N >= 1, which the code does satisfy.
TruncateKeepsSuffixPositive ==
    (pc = "returned" /\ args.max_length >= 1) =>
        /\ Len(ret) = Len(args.stories)
        /\ \A k \in 1..Len(ret) :
              LET before == args.stories[k][1]
                  keep   == Min(args.max_length, Len(before))
              IN  ret[k] = <<SubSeq(before, Len(before) - keep + 1, Len(before)),
                             args.stories[k][2], args.stories[k][3]>>

(***************************************************************************)
(* get_tokenizer                                                           *)
(***************************************************************************)
PAD_TOKEN == <<"_", "P", "A", "D">>

PAD_ID == 0

\* The characters of the model in the order of their code points, the order
\* sorted() compares strings by.
CodePointOrder ==
    <<"\t", "\n", " ", ".">> \o Digits
        \o <<"?", "A", "B", "D", "P", "_", "a", "b", "d", "p">>

Ord(c) == CHOOSE k \in 1..Len(CodePointOrder) : CodePointOrder[k] = c

\* s < t for two strings.
StrLess(s, t) ==
    \E k \in 1..(Min(Len(s), Len(t)) + 1) :
        /\ \A j \in 1..(k - 1) : s[j] = t[j]
        /\ \/ k > Len(s) /\ k <= Len(t)
           \/ k <= Len(s) /\ k <= Len(t) /\ Ord(s[k]) < Ord(t[k])

\* sorted(S) for a set S of strings.
RECURSIVE Sorted(_)
Sorted(S) ==
    IF S = {} THEN <<>>
    ELSE LET least == CHOOSE m \in S : \A o \in S \ {m} : StrLess(m, o)
         IN  <<least>> \o Sorted(S \ {least})

Range(f) == {f[k] : k \in DOMAIN f}

RECURSIVE Concat(_)
Concat(ss) == IF ss = <<>> THEN <<>> ELSE Head(ss) \o Concat(Tail(ss))

ExampleTokensNoAnswer(ex) ==
    Concat([k \in 1..Len(ex[1]) |-> ex[1][k].toks]) \o ex[2]

\* [token for sentence in story for token in sentence] + query + [answer]
ExampleTokens(ex) ==
    Concat([k \in 1..Len(ex[1]) |-> ex[1][k].toks]) \o ex[2] \o <<ex[3]>>

\* {token: i for i, token in enumerate(vocab)}: a later index replaces an
\* earlier one of the same token.
EnumerateToDict(v) ==
    [t \in Range(v) |->
        (CHOOSE k \in 1..Len(v) :
            v[k] = t /\ \A j \in 1..Len(v) : v[j] = t => j <= k) - 1]

\* get_tokenizer(stories): <<vocab, token_to_id>>
get_tokenizer(sts) ==
    LET tokens_all == Concat([k \in 1..Len(sts) |-> ExampleTokens(sts[k])])
        v == <<PAD_TOKEN>> \o Sorted(Range(tokens_all))
    IN  <<v, EnumerateToDict(v)>>

\* The inputs of get_tokenizer: any tokens, the answers raw strings.
VocabStories == {<<>>, <<Obj(<<<<"a">>>>)>>, <<Obj(<<<<"b">>, <<".">>>>), Obj(<<>>)>>}

VocabQueries == {<<>>, <<<<"a">>, <<"?">>>>}

VocabAnswers == {<<"a">>, <<"B">>, PAD_TOKEN}

VocabExamples ==
    {<<s, q, a>> : s \in VocabStories, q \in VocabQueries, a \in VocabAnswers}

VocabInit ==
    /\ pc = "call"
    /\ args \in [stories : SeqsUpTo(VocabExamples, MaxExamples)]
    /\ ret = None
    /\ NoParse
    /\ NoData

VocabCall ==
    /\ pc = "call"
    /\ pc' = "returned"
    /\ ret' = get_tokenizer(args.stories)
    /\ UNCHANGED <<args, parseVars, dataVars>>

SpecVocab == VocabInit /\ [][VocabCall]_vars

\* The tokens of a list of Examples: those of the sentences of the Stories, of
\* the questions, and the answers.
TokensOf(sts) ==
    UNION {UNION {Range(sts[k][1][m].toks) : m \in 1..Len(sts[k][1])}
               \cup Range(sts[k][2]) \cup {sts[k][3]} : k \in 1..Len(sts)}

\* C5: for every collection of Examples (any tokens, the answers raw strings)
\* the returned vocabulary is a sequence of pairwise distinct tokens with the
\* pad token at index 0, its length is 1 + the number of unique non-pad tokens,
\* and token_to_id maps the pad token to 0 (PAD_ID).
C5_VocabularyShape ==
    pc = "returned" =>
        LET v == ret[1]
            d == ret[2]
        IN  /\ \A j, k \in 1..Len(v) : j # k => v[j] # v[k]
            /\ v[1] = PAD_TOKEN
            /\ Len(v) = 1 + Cardinality(TokensOf(args.stories) \ {PAD_TOKEN})
            /\ d[PAD_TOKEN] = PAD_ID

\* The same for Examples that do not hold the pad token, which the code does
\* satisfy.
VocabularyShapeWithoutPad ==
    (pc = "returned" /\ PAD_TOKEN \notin TokensOf(args.stories)) =>
        LET v == ret[1]
            d == ret[2]
        IN  /\ \A j, k \in 1..Len(v) : j # k => v[j] # v[k]
            /\ v[1] = PAD_TOKEN
            /\ Len(v) = 1 + Cardinality(TokensOf(args.stories))
            /\ d[PAD_TOKEN] = PAD_ID
            /\ \A k \in 2..(Len(v) - 1) : StrLess(v[k], v[k + 1])

(***************************************************************************)
(* tokenize_stories                                                        *)
(***************************************************************************)
\* Whether every lookup token_to_id[token] of an Example finds its key.
HasKeys(ex, d) ==
    /\ \A m \in 1..Len(ex[1]) : Range(ex[1][m].toks) \subseteq DOMAIN d
    /\ Range(ex[2]) \subseteq DOMAIN d
    /\ ex[3] \in DOMAIN d

Encode(tokens, d) == [k \in 1..Len(tokens) |-> d[tokens[k]]]

\* One iteration of the loop: the Example with ids for tokens (new lists).
EncodeExample(ex, d) ==
    <<[k \in 1..Len(ex[1]) |-> Encode(ex[1][k].toks, d)], Encode(ex[2], d), d[ex[3]]>>

\* tokenize_stories(stories, token_to_id)
tokenize_stories(sts, d) ==
    IF \E k \in 1..Len(sts) : ~HasKeys(sts[k], d) THEN Raises("KeyError")
    ELSE Returns([k \in 1..Len(sts) |-> EncodeExample(sts[k], d)])

(***************************************************************************)
(* pad_stories                                                             *)
(***************************************************************************)
\* for _ in range(n - len(lst)): lst.append(PAD_ID)
PadList(lst, n) == lst \o [k \in 1..Max(n - Len(lst), 0) |-> PAD_ID]

PadRowEmpty(n) == <<>>

\* [PAD_ID for _ in range(max_sentence_length)]
PadRow(n) == [k \in 1..Max(n, 0) |-> PAD_ID]

AssertSkipped(a, b) == TRUE

\* assert a == b: whether it passes.
AssertEq(a, b) == a = b

\* One iteration of the loop on the Example ex, its lists changed in place:
\* [err, ex]. The first failing assertion ends it, with what was appended
\* before left in the lists.
PadExample(ex, max_sentence_length, max_story_length, max_query_length) ==
    LET cur == ex[1]
        failing == {k \in 1..Len(cur) :
                       ~AssertEq(Len(PadList(cur[k], max_sentence_length)),
                                 max_sentence_length)}
    IN  IF failing # {}
        THEN LET f == CHOOSE k \in failing : \A o \in failing : k <= o
             IN  [err |-> "AssertionError",
                  ex  |-> <<[k \in 1..Len(cur) |->
                                IF k <= f THEN PadList(cur[k], max_sentence_length)
                                          ELSE cur[k]],
                            ex[2], ex[3]>>]
        ELSE
        LET sentences == [k \in 1..Len(cur) |-> PadList(cur[k], max_sentence_length)]
            rows  == [k \in 1..Max(max_story_length - Len(cur), 0) |->
                         PadRow(max_sentence_length)]
            query == PadList(ex[2], max_query_length)
            after == <<sentences \o rows, query, ex[3]>>
        IN  IF /\ AssertEq(Len(sentences \o rows), max_story_length)
               /\ AssertEq(Len(query), max_query_length)
            THEN [err |-> None, ex |-> after]
            ELSE [err |-> "AssertionError", ex |-> after]

\* pad_stories(stories, ...)
pad_stories(sts, max_sentence_length, max_story_length, max_query_length) ==
    LET r == [k \in 1..Len(sts) |->
                 PadExample(sts[k], max_sentence_length, max_story_length,
                            max_query_length)]
    IN  IF \E k \in 1..Len(sts) : r[k].err # None THEN Raises("AssertionError")
        ELSE Returns([k \in 1..Len(sts) |-> r[k].ex])

\* The inputs of pad_stories: Examples of ids.
PadExamples ==
    {<<s, q, 1>> : s \in {<<>>, <<<<1>>>>, <<<<1, 2>>, <<1>>>>},
                   q \in {<<1>>, <<2, 1>>}}

(***************************************************************************)
(* Specification of pad_stories: one step per Example.                     *)
(***************************************************************************)
PadInit ==
    /\ pc = "loop"
    /\ args \in [stories : SeqsUpTo(PadExamples, MaxExamples),
                 max_sentence_length : 0..MaxPad,
                 max_story_length : 0..MaxPad,
                 max_query_length : 0..MaxPad]
    /\ ret = None
    /\ stories = args.stories
    /\ pos = 0
    /\ lines = None /\ only_supporting = None /\ story = None
    /\ stories_train = None /\ stories_test = None
    /\ vocab = None /\ token_to_id = None
    /\ stories_token_train = None /\ stories_token_test = None
    /\ params = None

\* for story, query, _ in stories: the loop body on the next Example.
PadStep ==
    /\ pc = "loop"
    /\ pos < Len(stories)
    /\ LET r == PadExample(stories[pos + 1], args.max_sentence_length,
                           args.max_story_length, args.max_query_length)
       IN  /\ stories' = [stories EXCEPT ![pos + 1] = r.ex]
           /\ pc' = IF r.err = None THEN "loop" ELSE r.err
    /\ pos' = pos + 1
    /\ UNCHANGED <<args, ret, lines, only_supporting, story, stories_train,
                   stories_test, vocab, token_to_id, stories_token_train,
                   stories_token_test, params>>

\* return stories
PadReturn ==
    /\ pc = "loop"
    /\ pos = Len(stories)
    /\ pc' = "returned"
    /\ ret' = stories
    /\ UNCHANGED <<args, parseVars, dataVars>>

PadNext == PadStep \/ PadReturn

SpecPad == PadInit /\ [][PadNext]_vars

IsPrefix(s, t) == Len(s) <= Len(t) /\ SubSeq(t, 1, Len(s)) = s

\* Whether the list handed to pad_stories holds a sentence, a story or a
\* question longer than its target.
Oversized ==
    \E k \in 1..Len(args.stories) :
        \/ \E m \in 1..Len(args.stories[k][1]) :
               Len(args.stories[k][1][m]) > args.max_sentence_length
        \/ Len(args.stories[k][1]) > args.max_story_length
        \/ Len(args.stories[k][2]) > args.max_query_length

\* C8: pad_stories never truncates and never accepts an oversized Example: when
\* some sentence, story or question is longer than its target it ends in an
\* assertion failure and does not return, and nothing is ever removed from a
\* sentence, a story or a question.
C8_OversizedAborts ==
    /\ pc = "returned" => ~Oversized
    /\ (Oversized /\ pos = Len(stories)) => pc = "AssertionError"
    /\ Len(stories) = Len(args.stories)
    /\ \A k \in 1..Len(stories) :
          /\ IsPrefix(args.stories[k][2], stories[k][2])
          /\ Len(stories[k][1]) >= Len(args.stories[k][1])
          /\ \A m \in 1..Len(args.stories[k][1]) :
                IsPrefix(args.stories[k][1][m], stories[k][1][m])

\* The second Example is oversized and ends the run, the first one padded.
C8_Witness ==
    /\ pc = "AssertionError"
    /\ pos = 2
    /\ Oversized
    /\ stories[1] # args.stories[1]

(***************************************************************************)
(* parse_data                                                              *)
(***************************************************************************)
\* max(S); empty S raises ValueError and is asked about before.
MaxOf(S) == CHOOSE m \in S : \A o \in S : m >= o

truncated_story_length(task_id) ==
    IF task_id = "qa3" THEN TruncatedLengthQa3 ELSE TruncatedLengthOther

\* [len(sentence) for story, _, _ in stories_token_all for sentence in story]
SentenceLengths(all) ==
    UNION {{Len(all[k][1][m]) : m \in 1..Len(all[k][1])} : k \in 1..Len(all)}

StoryLengths(all) == {Len(all[k][1]) : k \in 1..Len(all)}

QueryLengths(all) == {Len(all[k][2]) : k \in 1..Len(all)}

\* The lines of the files of the archive.
DataLines ==
    {NarrativeRaw(1, <<"B", ".">>),
     NarrativeRaw(2, <<"a">>),
     QuestionRaw(3, <<"a", "?">>, <<"B">>, <<"1">>),
     QuestionRaw(1, <<"b">>, PAD_TOKEN, <<"1">>)}

DataInit ==
    /\ pc = "parse"
    /\ args \in {a \in [f_train : SeqsUpTo(DataLines, MaxDataLines),
                        f_test : SeqsUpTo(DataLines, MaxDataLines),
                        dataset_id : {"qa1", "qa3"}] :
                    Len(a.f_train) + Len(a.f_test) <= MaxDataLines}
    /\ ret = None
    /\ NoParse
    /\ NoData

\* stories_train = parse_stories(f_train.readlines()), and stories_test
DataParse ==
    /\ pc = "parse"
    /\ LET tr == parse_stories(args.f_train, FALSE)
           te == parse_stories(args.f_test, FALSE)
       IN  /\ stories_train' = tr.val
           /\ stories_test' = te.val
           /\ pc' = IF tr.err # None THEN tr.err
                    ELSE IF te.err # None THEN te.err
                    ELSE "truncate"
    /\ UNCHANGED <<args, ret, parseVars, pos, vocab, token_to_id,
                   stories_token_train, stories_token_test, params>>

\* stories_train = truncate_stories(stories_train, truncated_story_length),
\* and stories_test
DataTruncate ==
    /\ pc = "truncate"
    /\ stories_train' =
          truncate_stories(stories_train, truncated_story_length(args.dataset_id))
    /\ stories_test' =
          truncate_stories(stories_test, truncated_story_length(args.dataset_id))
    /\ pc' = "get_tokenizer"
    /\ UNCHANGED <<args, ret, parseVars, pos, vocab, token_to_id,
                   stories_token_train, stories_token_test, params>>

\* vocab, token_to_id = get_tokenizer(stories_train + stories_test)
DataGetTokenizer ==
    /\ pc = "get_tokenizer"
    /\ LET r == get_tokenizer(stories_train \o stories_test)
       IN  /\ vocab' = r[1]
           /\ token_to_id' = r[2]
    /\ pc' = "tokenize"
    /\ UNCHANGED <<args, ret, parseVars, pos, stories_train, stories_test,
                   stories_token_train, stories_token_test, params>>

\* stories_token_train = tokenize_stories(stories_train, token_to_id), and
\* stories_token_test
DataTokenize ==
    /\ pc = "tokenize"
    /\ LET tr == tokenize_stories(stories_train, token_to_id)
           te == tokenize_stories(stories_test, token_to_id)
       IN  /\ stories_token_train' = tr.val
           /\ stories_token_test' = te.val
           /\ pc' = IF tr.err # None THEN tr.err
                    ELSE IF te.err # None THEN te.err
                    ELSE "maxima"
    /\ UNCHANGED <<args, ret, parseVars, pos, stories_train, stories_test,
                   vocab, token_to_id, params>>

\* The three maxima over stories_token_all, and params; max() of an empty list
\* raises ValueError.
DataMaxima ==
    /\ pc = "maxima"
    /\ LET all == stories_token_train \o stories_token_test
       IN  IF SentenceLengths(all) = {}
           THEN /\ pc' = "ValueError"
                /\ params' = params
           ELSE /\ pc' = "pad"
                /\ params' = [max_sentence_length |-> MaxOf(SentenceLengths(all)),
                              story_maxlen |-> MaxOf(StoryLengths(all)),
                              query_maxlen |-> MaxOf(QueryLengths(all)),
                              vocab_size |-> Len(vocab)]
    /\ UNCHANGED <<args, ret, parseVars, pos, stories_train, stories_test,
                   vocab, token_to_id, stories_token_train, stories_token_test>>

\* stories_pad_train = pad_stories(stories_token_train, ...), and
\* stories_pad_test; the lists are padded in place. return.
DataPad ==
    /\ pc = "pad"
    /\ LET tr == pad_stories(stories_token_train, params.max_sentence_length,
                             params.story_maxlen, params.query_maxlen)
           te == pad_stories(stories_token_test, params.max_sentence_length,
                             params.story_maxlen, params.query_maxlen)
       IN  IF tr.err # None \/ te.err # None
           THEN /\ pc' = "AssertionError"
                /\ UNCHANGED <<ret, stories_token_train, stories_token_test>>
           ELSE /\ pc' = "returned"
                /\ stories_token_train' = tr.val
                /\ stories_token_test' = te.val
                /\ ret' = <<tr.val, te.val, params>>
    /\ UNCHANGED <<args, parseVars, pos, stories_train, stories_test,
                   vocab, token_to_id, params>>

DataNext ==
    \/ DataParse
    \/ DataTruncate
    \/ DataGetTokenizer
    \/ DataTokenize
    \/ DataMaxima
    \/ DataPad

SpecData == DataInit /\ [][DataNext]_vars

\* The tokens anywhere in the lines of a file: of the narrative sentences, of
\* the questions, and the answers.
InputTokens(ls) ==
    LET T == TableOf(ls)
    IN  UNION {IF T[k].isq
               THEN Range(tokenize(QuestionField(T, k, 1))) \cup {QuestionField(T, k, 2)}
               ELSE Range(tokenize(T[k].text)) : k \in 1..Len(T)}

\* get_tokenizer has run.
HasVocab == pc \notin {"parse", "truncate", "get_tokenizer"}

\* Whether token_to_id gives every token of the set toks an id of its own in
\* 1..vocab_size - 1, by lexicographic rank.
IdsByRank(toks) ==
    /\ toks \subseteq DOMAIN token_to_id
    /\ \A t \in toks :
          /\ token_to_id[t] \in 1..(Len(vocab) - 1)
          /\ token_to_id[t] = 1 + Cardinality({u \in toks : StrLess(u, t)})
          /\ \A u \in toks : u # t => token_to_id[u] # token_to_id[t]

\* C6 as stated, for the runs of parse_data that return: every token anywhere
\* in the train or the test input (of a narrative sentence, of a question, or
\* an answer) has an id of its own in 1..vocab_size - 1, by lexicographic rank,
\* none the pad id 0, so encoding never fails on a missing token.
C6_EveryInputToken ==
    /\ pc # "KeyError"
    /\ pc = "returned" =>
          IdsByRank(InputTokens(args.f_train) \cup InputTokens(args.f_test))

\* C6, amended: every token of the Examples of either split, as parsed and
\* truncated (the sentences the Stories keep, the questions, the answers), has
\* an id of its own in 1..vocab_size - 1, by lexicographic rank, none the pad
\* id 0, and encoding never fails on a missing token.
C6_EveryExampleToken ==
    /\ pc # "KeyError"
    /\ HasVocab => IdsByRank(TokensOf(stories_train \o stories_test))

\* parse_data returns; both splits hold Examples, the test split a token the
\* train split has not; the train file ends with its question, and truncation
\* has left a token of its narrative in no Example.
C6_Witness ==
    /\ pc = "returned"
    /\ Len(stories_train) >= 1 /\ Len(stories_test) >= 1
    /\ TokensOf(stories_test) \ TokensOf(stories_train) # {}
    /\ TableOf(args.f_train)[Len(args.f_train)].isq
    /\ Len(stories_train[1][1]) = truncated_story_length(args.dataset_id)
    /\ InputTokens(args.f_train) \ TokensOf(stories_train \o stories_test) # {}

IsZeros(s) == \A k \in 1..Len(s) : s[k] = PAD_ID

\* Whether after is before with pad ids appended.
PaddedFrom(before, after) ==
    /\ IsPrefix(before, after)
    /\ IsZeros(SubSeq(after, Len(before) + 1, Len(after)))

\* Whether the padded list post is the encoded list pre, padded to the lengths
\* of the metadata p.
PaddedSplit(pre, post, p) ==
    /\ Len(post) = Len(pre)
    /\ \A k \in 1..Len(post) :
          /\ Len(post[k][1]) = p.story_maxlen
          /\ \A m \in 1..Len(post[k][1]) :
                /\ Len(post[k][1][m]) = p.max_sentence_length
                /\ IF m <= Len(pre[k][1])
                   THEN PaddedFrom(pre[k][1][m], post[k][1][m])
                   ELSE IsZeros(post[k][1][m])
          /\ Len(pre[k][1]) <= Len(post[k][1])
          /\ Len(post[k][2]) = p.query_maxlen
          /\ PaddedFrom(pre[k][2], post[k][2])
          /\ post[k][3] = pre[k][3]

\* C7: whenever parse_data returns, every Example of both splits has exactly
\* story_maxlen sentences, every sentence max_sentence_length ids and every
\* question query_maxlen ids, the three values of the returned metadata, the
\* maxima over both splits together; what was there before padding is kept as
\* a prefix and every appended position holds 0 (appended sentences all 0).
C7_PaddingInvariants ==
    pc = "returned" =>
        LET p == ret[3]
            pre_train == tokenize_stories(stories_train, token_to_id).val
            pre_test  == tokenize_stories(stories_test, token_to_id).val
            all == pre_train \o pre_test
        IN  /\ PaddedSplit(pre_train, ret[1], p)
            /\ PaddedSplit(pre_test, ret[2], p)
            /\ p.max_sentence_length \in SentenceLengths(all)
            /\ p.story_maxlen \in StoryLengths(all)
            /\ p.query_maxlen \in QueryLengths(all)
            /\ p.vocab_size = Len(vocab)

\* Both splits hold Examples; a sentence, a story and a question were padded.
C7_Witness ==
    /\ pc = "returned"
    /\ Len(ret[1]) >= 1 /\ Len(ret[2]) >= 1
    /\ LET pre == tokenize_stories(stories_train \o stories_test, token_to_id).val
       IN  /\ \E k \in 1..Len(pre) : Len(pre[k][1]) < ret[3].story_maxlen
           /\ \E k \in 1..Len(pre) : Len(pre[k][2]) < ret[3].query_maxlen
           /\ \E k \in 1..Len(pre) : \E m \in 1..Len(pre[k][1]) :
                  Len(pre[k][1][m]) < ret[3].max_sentence_length

(***************************************************************************)
(* get_data                                                                *)
(***************************************************************************)
\* lst[:stop]
PySliceTo(lst, stop) ==
    LET to == IF stop < 0 THEN Max(Len(lst) + stop, 0) ELSE Min(stop, Len(lst))
    IN  SubSeq(lst, 1, to)

\* np.array(lst) of a list nested depth deep, every level of one length: the
\* shape and the elements in row-major order.
RECURSIVE ShapeOf(_, _)
ShapeOf(lst, depth) ==
    IF depth = 1 \/ lst = <<>> THEN <<Len(lst)>>
    ELSE <<Len(lst)>> \o ShapeOf(lst[1], depth - 1)

RECURSIVE FlatOf(_, _)
FlatOf(lst, depth) ==
    IF depth = 1 THEN lst
    ELSE Concat([k \in 1..Len(lst) |-> FlatOf(lst[k], depth - 1)])

NpArray(lst, depth) == [shape |-> ShapeOf(lst, depth), flat |-> FlatOf(lst, depth)]

UpdatedShapeByQuotient(dataset_size, batch_size) ==
    dataset_size - (dataset_size \div batch_size)

\* buffer = dataset_size % batch_size; updated_shape = dataset_size - buffer
UpdatedShape(dataset_size, batch_size) ==
    dataset_size - (dataset_size % batch_size)

\* The three arrays of one split.
TrimSplit(split, batch_size) ==
    LET x  == [k \in 1..Len(split) |-> split[k][1]]
        xq == [k \in 1..Len(split) |-> split[k][2]]
        y  == [k \in 1..Len(split) |-> split[k][3]]
        updated_shape == UpdatedShape(Len(x), batch_size)
    IN  <<NpArray(PySliceTo(x, updated_shape), 3),
          NpArray(PySliceTo(xq, updated_shape), 2),
          NpArray(PySliceTo(y, updated_shape), 1)>>

\* get_data, parsed being what parse_data(FLAGS) returned.
get_data(parsed, batch_size) ==
    <<TrimSplit(parsed[1], batch_size), TrimSplit(parsed[2], batch_size), parsed[3]>>

\* Padded Examples as parse_data returns them: one sentence of two ids, a
\* question of one id.
BatchExamples == {<<<<<<1, 0>>>>, <<2>>, 1>>, <<<<<<2, 3>>>>, <<3>>, 2>>}

BatchParams ==
    [max_sentence_length |-> 2, story_maxlen |-> 1, query_maxlen |-> 1,
     vocab_size |-> 4]

BatchInit ==
    /\ pc = "call"
    /\ args \in [parsed : {<<tr, te, BatchParams>> :
                              tr \in SeqsUpTo(BatchExamples, MaxBatchExamples),
                              te \in SeqsUpTo(BatchExamples, MaxBatchExamples)},
                 batch_size : 1..MaxBatch]
    /\ ret = None
    /\ NoParse
    /\ NoData

BatchCall ==
    /\ pc = "call"
    /\ pc' = "returned"
    /\ ret' = get_data(args.parsed, args.batch_size)
    /\ UNCHANGED <<args, parseVars, dataVars>>

SpecBatch == BatchInit /\ [][BatchCall]_vars

\* Whether the arrays hold exactly the first keep Examples of the split, in
\* order, story, question and answer of one Example at one position.
FirstOf(arrays, split, keep) ==
    /\ \A a \in 1..3 : arrays[a].shape[1] = keep
    /\ arrays[1].flat = Concat([k \in 1..keep |-> Concat(split[k][1])])
    /\ arrays[2].flat = Concat([k \in 1..keep |-> split[k][2]])
    /\ arrays[3].flat = [k \in 1..keep |-> split[k][3]]

\* C9: for either split, trimmed on its own, with n Examples and a batch size
\* b >= 1, the story, question and answer arrays hold exactly n - (n mod b)
\* Examples, the first n - (n mod b) of the split in their order, the three
\* entries at one position belonging to one Example; the metadata is passed
\* through unchanged.
C9_BatchTrim ==
    pc = "returned" =>
        LET b  == args.batch_size
            tr == args.parsed[1]
            te == args.parsed[2]
        IN  /\ FirstOf(ret[1], tr, Len(tr) - (Len(tr) % b))
            /\ FirstOf(ret[2], te, Len(te) - (Len(te) % b))
            /\ ret[3] = args.parsed[3]

\* Four train Examples in batches of three: one is dropped; the two test
\* Examples do not fill a batch.
C9_Witness ==
    /\ pc = "returned"
    /\ args.batch_size = 3
    /\ Len(args.parsed[1]) = 4
    /\ Len(args.parsed[2]) = 2
    /\ ret[1][1].shape[1] = 3
    /\ ret[2][1].shape[1] = 0
    /\ args.parsed[1][1] # args.parsed[1][2]

====
